---- MODULE Spec2Model ----
(***************************************************************************)
(* The room/session state machine of the CodeClash api-server:             *)
(* RoomsGateway (rooms.gateway.ts) over RoomsService.                      *)
(*                                                                         *)
(* The gateway's handlers are modelled from their source.  RoomsService,   *)
(* AuthService, UsersService and ProblemsService are not among the source  *)
(* files; the operators named svc... model RoomsService from the design    *)
(* document (sections 4.1 - 4.5).  An operation of the service that        *)
(* "fails" and whose result the gateway does not read (enterRoom,          *)
(* switchReady, getTimer, gameOver, changeRoomState) raises an exception,  *)
(* which ends the handler at that line; kick, whose result the gateway     *)
(* returns to the caller as { status }, reports failure in that status.    *)
(***************************************************************************)
EXTENDS Integers, FiniteSets, Sequences, TLC

\* ---------------------------------------------------------------- bounds
NumSockets == 2      \* connections ever opened (socket ids 1..NumSockets)
MaxRooms == 2        \* rooms ever created (room ids 1..MaxRooms)
MaxAsync == 2        \* start() calls in flight plus item-spawn intervals alive, over all rooms
MaxItems == 1        \* items of one kind a member holds

Users == {"A", "B"}          \* user identities (user.name)
Capacities == {1, 2}         \* the capacity field of create_room
ItemKinds == {"i1", "i2"}    \* the item field of the item action

\* ------------------------------------------------------------- constants
LOBBY_ID == 0        \* the id of the lobby pseudo-room
NoRoom == -1         \* socket.data.roomId while undefined
NoSocket == 0        \* getSocketId(name) of a name that is not registered
NoUser == "none"     \* socket.data.user while undefined

Sockets == 1..NumSockets
RoomIds == 1..MaxRooms
Tokens == Users \cup {"missing", "invalid"}

VARIABLES
  sock,          \* per socket: st, user, roomId (socket.data.roomId), passed (socket.data.passed),
                 \*   joined (the broadcast channels the socket is subscribed to)
  registry,      \* RoomsService: user name -> socket id
  rooms,         \* RoomsService: the room directory
  lobby,         \* RoomsService: the members of the lobby
  pendingStart,  \* per room id: start() calls awaiting findProblemsWithTestcases
  countdowns,    \* per room id: scheduled, uncancelled setTimeout callbacks of pass()
  intervals,     \* per room id: uncancelled setInterval callbacks of start()
  out,           \* the notifications the last step emitted
  last           \* the last step: handler, socket, room, result

vars == <<sock, registry, rooms, lobby, pendingStart, countdowns, intervals, out, last>>

\* ------------------------------------------------------------ notifications
Bcast(ev, r) == [ev |-> ev, to |-> r, sock |-> NoSocket, about |-> NoRoom]
BcastAbout(ev, r, x) == [ev |-> ev, to |-> r, sock |-> NoSocket, about |-> x]
Direct(ev, s) == [ev |-> ev, to |-> NoRoom, sock |-> s, about |-> NoRoom]
Step(op, s, r, res) == [op |-> op, s |-> s, r |-> r, res |-> res, item |-> "none"]

\* ------------------------------------------------------------ sockets
NewSocket == [st |-> "new", user |-> NoUser, roomId |-> NoRoom, passed |-> FALSE,
              joined |-> {}]
ClosedSocket == [NewSocket EXCEPT !.st = "closed"]

\* client.join(room) and client.leave(room): the socket's broadcast channels.
\* Leaving a channel the socket has not joined changes nothing.
join(sk, s, r) == [sk EXCEPT ![s].joined = @ \cup {r}]
leave(sk, s, r) == [sk EXCEPT ![s].joined = @ \ {r}]

\* ------------------------------------------------------------ RoomsService
\* One record for the state the service's operations read and write: the
\* directory, the lobby, and the timers whose handles the rooms hold.
World == [rooms |-> rooms, lobby |-> lobby, cd |-> countdowns, iv |-> intervals]

\* itemList: {} of a member that has just entered.
NoItems == [k \in ItemKinds |-> 0]

\* timerSetIn records the state the room was in when the stored countdown was
\* scheduled.
FreeRoom == [status |-> "free", state |-> "waiting", capacity |-> 0, players |-> {},
             ready |-> {}, timer |-> "none", timerSetIn |-> "none", itemCreator |-> "none",
             inv |-> [u \in Users |-> NoItems]]
GoneRoom == [FreeRoom EXCEPT !.status = "gone"]
FreshRoom(cap) == [FreeRoom EXCEPT !.status = "live", !.capacity = cap]

IsLive(w, r) == r \in RoomIds /\ w.rooms[r].status = "live"

isConnectedUser(u) == registry[u] # NoSocket
getSocketId(u) == registry[u]

\* roomInfo(roomId): the room's detail, falsy when there is no such room.
roomInfo(w, r) == IsLive(w, r)

Members(w, r) == IF r = LOBBY_ID THEN w.lobby
                 ELSE IF IsLive(w, r) THEN w.rooms[r].players ELSE {}

roomUserCount(w, r) == Cardinality(Members(w, r))

\* Removing a room from the directory cancels the timers it holds.
RemoveRoom(w, r) ==
  [w EXCEPT !.rooms[r] = GoneRoom,
            !.cd[r] = IF w.rooms[r].timer = "live" THEN @ - 1 ELSE @,
            !.iv[r] = IF w.rooms[r].itemCreator = "set" THEN @ - 1 ELSE @]

\* exit(roomId, identity): removes the member; an emptied room is removed.
\* A room id that names no room (undefined, or a removed room) changes nothing.
svcExitRoom(w, r, u) ==
  IF r = LOBBY_ID THEN [w EXCEPT !.lobby = @ \ {u}]
  ELSE IF ~IsLive(w, r) THEN w
  ELSE IF w.rooms[r].players \ {u} = {} THEN RemoveRoom(w, r)
  ELSE [w EXCEPT !.rooms[r].players = @ \ {u}, !.rooms[r].ready = @ \ {u},
                 !.rooms[r].inv[u] = NoItems]

\* exit's result: whether the room still exists.
svcExitRoomResult(w, r, u) == r = LOBBY_ID \/ IsLive(svcExitRoom(w, r, u), r)

\* enter(roomId, previousRoomId, member): its failure, "ok" when it succeeds.
svcEnterRoomError(w, r, prev, u) ==
  IF r = LOBBY_ID THEN "ok"
  ELSE IF ~IsLive(w, r) THEN "RoomNotFound"
  ELSE IF Cardinality(w.rooms[r].players) >= w.rooms[r].capacity THEN "RoomFull"
  ELSE "ok"

\* enter, when it succeeds: the member leaves prev and joins r, not ready.
svcEnterRoom(w, r, prev, u) ==
  LET w1 == IF prev = r THEN w ELSE svcExitRoom(w, prev, u)
  IN IF r = LOBBY_ID THEN [w1 EXCEPT !.lobby = @ \cup {u}]
     ELSE [w1 EXCEPT !.rooms[r].players = @ \cup {u}, !.rooms[r].ready = @ \ {u},
                     !.rooms[r].inv[u] = NoItems]

\* The model's bound on asynchronous work: start() calls in flight and
\* item-spawn intervals alive.
RECURSIVE SumTo(_, _)
SumTo(f, n) == IF n = 0 THEN 0 ELSE f[n] + SumTo(f, n - 1)
AsyncLoad == SumTo(pendingStart, MaxRooms) + SumTo(intervals, MaxRooms)

\* ------------------------------------------------------------ initial state
Init ==
  /\ sock = [s \in Sockets |-> NewSocket]
  /\ registry = [u \in Users |-> NoSocket]
  /\ rooms = [r \in RoomIds |-> FreeRoom]
  /\ lobby = {}
  /\ pendingStart = [r \in RoomIds |-> 0]
  /\ countdowns = [r \in RoomIds |-> 0]
  /\ intervals = [r \in RoomIds |-> 0]
  /\ out = {}
  /\ last = Step("init", NoSocket, NoRoom, "ok")

\* The service's state after an operation that returned w.
SetWorld(w) ==
  /\ rooms' = w.rooms
  /\ lobby' = w.lobby
  /\ countdowns' = w.cd
  /\ intervals' = w.iv

\* ------------------------------------------------------------ connections
\* handleConnection up to its await: a missing or invalid token is rejected
\* at once; otherwise the handler waits for getUserByEmail.
handleConnection(s, tok) ==
  /\ sock[s].st = "new"
  /\ \A t \in Sockets : t < s => sock[t].st # "new"
  /\ s = 1 => tok # "B"     \* the names are interchangeable: the first to appear is A
  /\ IF tok \in Users
       THEN /\ sock' = [sock EXCEPT ![s].st = "lookup", ![s].user = tok]
            /\ out' = {}
            /\ last' = Step("connect", s, NoRoom, "pending")
       ELSE /\ sock' = [sock EXCEPT ![s].st = "rejected"]
            /\ out' = {Direct("connection_fail", s)}
            /\ last' = Step("connect", s, NoRoom, "rejected")
  /\ UNCHANGED <<registry, rooms, lobby, pendingStart, countdowns, intervals>>

\* handleConnection after the await: the duplicate check and the registration.
\* The socket may have been closed by its client meanwhile ("lookupClosed").
\* (a handler that registers without the duplicate check of line 65)
connectionAcceptsAll(u) == TRUE

connectionAccepts(u) == ~isConnectedUser(u)

\* (a handler that assigns socket.data.user before the duplicate check)
dataUserOnRejectAssigned(u) == u

\* Lines 65-75: socket.data.user is assigned only after the duplicate check, so
\* a rejected socket carries no user.
dataUserOnReject(u) == NoUser

connectionResume(s) ==
  /\ sock[s].st \in {"lookup", "lookupClosed"}
  /\ LET u == sock[s].user IN
     IF ~connectionAccepts(u)
       THEN /\ sock' = [sock EXCEPT ![s] = IF sock[s].st = "lookup"
                                             THEN [@ EXCEPT !.st = "rejected",
                                                             !.user = dataUserOnReject(u)]
                                             ELSE ClosedSocket]
            /\ registry' = registry
            /\ out' = {Direct("connection_fail", s)}
            /\ last' = Step("connect", s, NoRoom, "rejected")
       ELSE /\ sock' = [sock EXCEPT ![s] = IF sock[s].st = "lookup"
                                             THEN [@ EXCEPT !.st = "open"]
                                             ELSE ClosedSocket]
            /\ registry' = [registry EXCEPT ![u] = s]
            /\ out' = {}
            /\ last' = Step("connect", s, NoRoom, "registered")
  /\ UNCHANGED <<rooms, lobby, pendingStart, countdowns, intervals>>

\* (a handler that announces the exit without looking the room up, line 103)
disconnectEventsNoLookup(w, r) ==
  IF r = NoRoom THEN {}
  ELSE IF r = LOBBY_ID THEN {Bcast("user_exit_lobby", LOBBY_ID)}
  ELSE {Bcast("user_exit_room", r)}

\* handleDisconnect's notifications (lines 96-114): r is socket.data.roomId and
\* w the service's state after exitRoom.
disconnectEvents(w, r) ==
  IF r = NoRoom THEN {}
  ELSE IF r = LOBBY_ID THEN {Bcast("user_exit_lobby", LOBBY_ID)}
  ELSE IF roomInfo(w, r) THEN {Bcast("user_exit_room", r)}
  ELSE {BcastAbout("delete_room", LOBBY_ID, r)}

\* Line 90: whether socket.data.user is set.  A socket still in its lookup has
\* none yet (its user field holds the identity being looked up).
hasDataUser(s) == sock[s].st \in {"open", "rejected"} /\ sock[s].user # NoUser

\* handleDisconnect: a socket without socket.data.user (still in the lookup, or
\* rejected) leaves everything as it is.
handleDisconnect(s) ==
  /\ sock[s].st \in {"lookup", "rejected", "open"}
  /\ IF ~hasDataUser(s)
       THEN /\ sock' = [sock EXCEPT ![s] = IF sock[s].st = "lookup"
                                             THEN [@ EXCEPT !.st = "lookupClosed"]
                                             ELSE ClosedSocket]
            /\ out' = {}
            /\ last' = Step("disconnect", s, NoRoom, "ignored")
            /\ UNCHANGED <<registry, rooms, lobby, countdowns, intervals>>
       ELSE LET u == sock[s].user
                r == sock[s].roomId
                w == svcExitRoom(World, r, u)
            IN /\ SetWorld(w)
               /\ registry' = [registry EXCEPT ![u] = NoSocket]
               /\ sock' = [sock EXCEPT ![s] = ClosedSocket]
               /\ out' = disconnectEvents(w, r)
               /\ last' = Step("disconnect", s, r, "ok")
  /\ UNCHANGED pendingStart

\* ------------------------------------------------------------ lobby and rooms
\* (handlers that hand the service no previous room)
previousRoomForgotten(s) == NoRoom

\* The previous room enterLobby and enterRoom hand to the service.
previousRoom(s) == sock[s].roomId

enterLobby(s) ==
  /\ sock[s].st = "open"
  /\ SetWorld(svcEnterRoom(World, LOBBY_ID, previousRoom(s), sock[s].user))
  /\ sock' = [join(sock, s, LOBBY_ID) EXCEPT ![s].roomId = LOBBY_ID]
  /\ out' = {Bcast("user_enter_lobby", LOBBY_ID)}
  /\ last' = Step("enter_lobby", s, LOBBY_ID, "ok")
  /\ UNCHANGED <<registry, pendingStart>>

exitLobby(s) ==
  /\ sock[s].st = "open"
  /\ SetWorld(svcExitRoom(World, LOBBY_ID, sock[s].user))
  /\ out' = {Bcast("user_exit_lobby", LOBBY_ID)}
  /\ last' = Step("exit_lobby", s, LOBBY_ID, "ok")
  /\ sock' = leave(sock, s, LOBBY_ID)
  /\ UNCHANGED <<registry, pendingStart>>

\* create(name, capacity): a fresh id, never used before.
FreshRoomId == CHOOSE r \in RoomIds :
                 rooms[r].status = "free" /\ \A q \in RoomIds : q < r => rooms[q].status # "free"

\* createRoom reads client.data.user.name only after the room is created: a
\* socket still in its lookup creates the room and fails before the broadcast.
createRoom(s, cap) ==
  /\ sock[s].st \in {"open", "lookup"}
  /\ \E r \in RoomIds : rooms[r].status = "free"
  /\ rooms' = [rooms EXCEPT ![FreshRoomId] = FreshRoom(cap)]
  /\ out' = IF sock[s].st = "open"
              THEN {BcastAbout("user_create_room", LOBBY_ID, FreshRoomId)} ELSE {}
  /\ last' = Step("create_room", s, FreshRoomId,
                  IF sock[s].st = "open" THEN "ok" ELSE "error")
  /\ UNCHANGED <<sock, registry, lobby, pendingStart, countdowns, intervals>>

\* (a handler that swallows the service's failure and goes on)
enterRoomProceedsAnyway(err) == TRUE

\* Line 184: nothing catches the service's failure, so the handler goes on
\* to line 185 only when enterRoom has returned.
enterRoomProceeds(err) == err = "ok"

\* enterRoom: the service's failure ends the handler at line 184.
enterRoom(s, r) ==
  /\ sock[s].st = "open"
  /\ LET u == sock[s].user
         err == svcEnterRoomError(World, r, previousRoom(s), u)
     IN IF ~enterRoomProceeds(err)
          THEN /\ out' = {}
               /\ last' = Step("enter_room", s, r, err)
               /\ UNCHANGED <<sock, rooms, lobby, countdowns, intervals>>
          ELSE LET w == IF err = "ok" THEN svcEnterRoom(World, r, previousRoom(s), u)
                        ELSE World
               IN /\ SetWorld(w)
                  /\ sock' = [join(sock, s, r) EXCEPT ![s].roomId = r]
                  /\ out' = {Bcast("user_enter_room", r),
                             BcastAbout("change_user_count", LOBBY_ID, r)}
                  /\ last' = Step("enter_room", s, r, err)
  /\ UNCHANGED <<registry, pendingStart>>

\* exitRoom's notifications (lines 213-221).
exitRoomEvents(roomExists, r) ==
  IF roomExists
    THEN {Bcast("user_exit_room", r), BcastAbout("change_user_count", LOBBY_ID, r)}
    ELSE {BcastAbout("delete_room", LOBBY_ID, r)}

exitRoom(s) ==
  /\ sock[s].st = "open"
  /\ LET u == sock[s].user
         r == sock[s].roomId
     IN /\ SetWorld(svcExitRoom(World, r, u))
        /\ out' = exitRoomEvents(svcExitRoomResult(World, r, u), r)
        /\ last' = Step("exit_room", s, r, "ok")
        /\ sock' = leave(sock, s, r)
  /\ UNCHANGED <<registry, pendingStart>>

\* ------------------------------------------------------------ kick
\* kick(roomId, byIdentity, targetIdentity) -> status
svcKickStatus(w, r, by, target) ==
  IF r # LOBBY_ID /\ ~IsLive(w, r) THEN "RoomNotFound"
  ELSE IF by \notin Members(w, r) \/ target \notin Members(w, r) THEN "NotAMember"
  ELSE "success"

svcKick(w, r, by, target) ==
  IF svcKickStatus(w, r, by, target) = "success" THEN svcExitRoom(w, r, target) ELSE w

\* this.socket(id): the connected socket of that id, if any.
socketConnected(id) == id \in Sockets /\ sock[id].st = "open"

\* kick's notifications (lines 273-279), whatever the service's status was.
kickEvents(status, r, targetSocket) ==
  {Direct("kick", targetSocket), Bcast("user_exit_room", r),
   BcastAbout("change_user_count", LOBBY_ID, r)}

\* kick: targetSocket.leave() throws when the target has no connected socket,
\* after the service has acted.
kick(s, target) ==
  /\ sock[s].st = "open"
  /\ LET u == sock[s].user
         r == sock[s].roomId
         status == svcKickStatus(World, r, u, target)
         targetSocket == getSocketId(target)
     IN /\ SetWorld(svcKick(World, r, u, target))
        /\ out' = IF socketConnected(targetSocket)
                    THEN kickEvents(status, r, targetSocket) ELSE {}
        /\ sock' = IF socketConnected(targetSocket) THEN leave(sock, targetSocket, r) ELSE sock
        /\ last' = Step("kick", s, r, status)
  /\ UNCHANGED <<registry, pendingStart>>

\* ------------------------------------------------------------ ready and start
\* setReady toggles the member's flag; it fails for a caller who is no member.
svcSwitchReady(w, r, u) ==
  [w EXCEPT !.rooms[r].ready = IF u \in @ THEN @ \ {u} ELSE @ \cup {u}]

\* allUserReady: every member is ready (the service enforces no minimum).
svcAllUserReady(w, r) == IsLive(w, r) /\ w.rooms[r].players \subseteq w.rooms[r].ready

\* ready: start(roomId) is called without being awaited and suspends at its
\* first line, so the handler's step ends with one more start in flight.
ready(s) ==
  /\ sock[s].st = "open"
  /\ LET u == sock[s].user
         r == sock[s].roomId
     IN /\ IsLive(World, r)
        /\ u \in rooms[r].players
        /\ LET w == svcSwitchReady(World, r, u)
               starts == svcAllUserReady(w, r)
           IN /\ starts => AsyncLoad < MaxAsync
              /\ SetWorld(w)
              /\ pendingStart' = [pendingStart EXCEPT ![r] = IF starts THEN @ + 1 ELSE @]
              /\ out' = {Bcast("ready", r)}
              /\ last' = Step("ready", s, r, IF starts THEN "start" ELSE "ok")
  /\ UNCHANGED <<sock, registry>>

\* changeState(roomId, 'playing'): only waiting -> playing is a transition.
svcCanStart(w, r) == IsLive(w, r) /\ w.rooms[r].state = "waiting"

\* start after its await (lines 376-384): the interval is created first; when
\* changeRoomState fails the handle is never stored and the interval stays.
start(r) ==
  /\ pendingStart[r] > 0
  /\ pendingStart' = [pendingStart EXCEPT ![r] = @ - 1]
  /\ intervals' = [intervals EXCEPT ![r] = @ + 1]
  /\ IF svcCanStart(World, r)
       THEN /\ rooms' = [rooms EXCEPT ![r].state = "playing", ![r].itemCreator = "set"]
            /\ out' = {Bcast("start", r), BcastAbout("room_start", LOBBY_ID, r)}
            /\ last' = Step("start", NoSocket, r, "ok")
       ELSE /\ rooms' = rooms
            /\ out' = {}
            /\ last' = Step("start", NoSocket, r, "error")
  /\ UNCHANGED <<sock, registry, lobby, countdowns>>

\* ------------------------------------------------------------ pass and the countdown
\* allUserPassed: every member's connection carries the passed flag.
svcAllUserPassed(w, r, sk) ==
  IsLive(w, r) /\ \A u \in w.rooms[r].players : sk[registry[u]].passed

\* clearTimeout(handle)
clearTimeout(w, r) ==
  [w EXCEPT !.cd[r] = IF w.rooms[r].timer = "live" THEN @ - 1 ELSE @,
            !.rooms[r].timer = IF @ = "none" THEN "none" ELSE "dead"]

\* gameOver(roomId): "ok" when it returns, an error when it throws.
svcGameOverResult(w, r) ==
  IF ~IsLive(w, r) THEN "RoomNotFound"
  ELSE IF w.rooms[r].state = "waiting" THEN "InvalidTransition"
  ELSE "ok"

\* gameOver: ends the round of a playing room, cancelling the timers it holds;
\* a no-op on a room that is over already.
svcGameOver(w, r) ==
  IF IsLive(w, r) /\ w.rooms[r].state = "playing"
    THEN [w EXCEPT !.rooms[r].state = "over",
                   !.rooms[r].timer = "none",
                   !.rooms[r].timerSetIn = "none",
                   !.rooms[r].itemCreator = "none",
                   !.cd[r] = IF w.rooms[r].timer = "live" THEN @ - 1 ELSE @,
                   !.iv[r] = IF w.rooms[r].itemCreator = "set" THEN @ - 1 ELSE @]
    ELSE w

\* The round-end notifications, emitted once gameOver has returned.
gameOverEvents(res, r) ==
  IF res = "ok" THEN {Bcast("game_over", r), BcastAbout("room_game_over", LOBBY_ID, r)}
  ELSE {}

\* line 305: the fast path is taken only while a timer handle is stored.
passEndsRound(allPassed, timer) == allPassed /\ timer # "none"

\* line 314: a stored timer handle means no new countdown.
passStartsCountdown(timer) == timer = "none"

\* pass: getTimer fails for a room id that names no game room, before the
\* flag is set.
pass(s) ==
  /\ sock[s].st = "open"
  /\ LET r == sock[s].roomId
         timer == rooms[r].timer
         sk == [sock EXCEPT ![s].passed = TRUE]
     IN /\ IsLive(World, r)
        /\ sock' = sk
        /\ IF passEndsRound(svcAllUserPassed(World, r, sk), timer)
             THEN LET w == clearTimeout(World, r)
                      res == svcGameOverResult(w, r)
                  IN /\ SetWorld(svcGameOver(w, r))
                     /\ out' = gameOverEvents(res, r)
                     /\ last' = Step("pass", s, r, IF res = "ok" THEN "game_over" ELSE res)
             ELSE IF ~passStartsCountdown(timer)
               THEN /\ out' = {}
                    /\ last' = Step("pass", s, r, "ok")
                    /\ UNCHANGED <<rooms, lobby, countdowns, intervals>>
               ELSE /\ rooms' = [rooms EXCEPT ![r].timer = "live",
                                               ![r].timerSetIn = rooms[r].state]
                    /\ countdowns' = [countdowns EXCEPT ![r] = @ + 1]
                    /\ out' = {Bcast("countdown", r)}
                    /\ last' = Step("pass", s, r, "countdown")
                    /\ UNCHANGED <<lobby, intervals>>
  /\ UNCHANGED <<registry, pendingStart>>

\* (a callback that leaves the round as it is)
countdownCallbackIdle(w, r) == w

\* Line 317: the countdown's callback ends the round, whoever has passed.
countdownCallback(w, r) == svcGameOver(w, r)

\* The countdown's expiry (lines 316-320).  The handle that fired is the
\* one the room stores, unless several countdowns are scheduled for the room.
countdownExpire(r) ==
  /\ countdowns[r] > 0
  /\ \E stored \in IF r \in RoomIds /\ rooms[r].timer = "live"
                     THEN (IF countdowns[r] = 1 THEN {TRUE} ELSE {TRUE, FALSE})
                     ELSE {FALSE} :
       LET w0 == [World EXCEPT !.cd[r] = @ - 1]
           w == IF stored THEN [w0 EXCEPT !.rooms[r].timer = "dead"] ELSE w0
           res == svcGameOverResult(w, r)
       IN /\ SetWorld(countdownCallback(w, r))
          /\ out' = gameOverEvents(res, r)
          /\ last' = Step("countdown_expire", NoSocket, r, res)
  /\ UNCHANGED <<sock, registry, pendingStart>>

\* ------------------------------------------------------------ items
\* assignItem(roomId, identity): one more item of the chosen kind.
svcAssignItem(w, r, u, k) == [w EXCEPT !.rooms[r].inv[u][k] = @ + 1]

\* roomSocketIdList(roomId): the members whose sockets createItem visits; none
\* for a room id that names no room.
roomSocketIdList(w, r) == IF IsLive(w, r) THEN w.rooms[r].players ELSE {}

RECURSIVE assignAll(_, _, _, _)
assignAll(w, r, us, f) ==
  IF us = {} THEN w
  ELSE LET u == CHOOSE x \in us : TRUE
       IN assignAll(svcAssignItem(w, r, u, f[u]), r, us \ {u}, f)

\* One tick of an item-spawn interval (lines 361-371): every member of the
\* room is assigned an item, of a kind the service chooses, and told so.
createItem(r) ==
  /\ intervals[r] > 0
  /\ LET us == roomSocketIdList(World, r)
     IN \E f \in [us -> ItemKinds] :
          /\ \A u \in us : rooms[r].inv[u][f[u]] < MaxItems
          /\ SetWorld(assignAll(World, r, us, f))
          /\ out' = {Direct("create_item", getSocketId(u)) : u \in us}
          /\ last' = Step("create_item", NoSocket, r, IF us = {} THEN "none" ELSE "ok")
  /\ UNCHANGED <<sock, registry, pendingStart>>

\* useItem(roomId, identity, itemKind) -> status
svcUseItemStatus(w, r, u, k) ==
  IF ~IsLive(w, r) THEN "RoomNotFound"
  ELSE IF u \notin w.rooms[r].players THEN "NotAMember"
  ELSE IF w.rooms[r].inv[u][k] = 0 THEN "ItemNotOwned"
  ELSE "success"

svcUseItem(w, r, u, k) ==
  IF svcUseItemStatus(w, r, u, k) = "success"
    THEN [w EXCEPT !.rooms[r].inv[u][k] = @ - 1]
    ELSE w

\* (a handler that asks the service for another kind than the client named)
useItemRequestOtherKind(s, k) ==
  [r |-> sock[s].roomId, u |-> sock[s].user, k |-> CHOOSE x \in ItemKinds : x # k]

\* Lines 286-289: what useItem hands to the service.
useItemRequest(s, k) == [r |-> sock[s].roomId, u |-> sock[s].user, k |-> k]

\* useItem: the status goes to the other members of the room.
useItem(s, k) ==
  /\ sock[s].st = "open"
  /\ LET q == useItemRequest(s, k)
         status == svcUseItemStatus(World, q.r, q.u, q.k)
     IN /\ SetWorld(svcUseItem(World, q.r, q.u, q.k))
        /\ out' = {Bcast("item", q.r)}
        /\ last' = [Step("item", s, q.r, status) EXCEPT !.item = k]
  /\ UNCHANGED <<sock, registry, pendingStart>>

\* ------------------------------------------------------------ specifications
\* Connections, the lobby and the rooms: what clients do before any round.
SessionNext ==
  \/ \E s \in Sockets, tok \in Tokens : handleConnection(s, tok)
  \/ \E s \in Sockets : connectionResume(s)
  \/ \E s \in Sockets, cap \in Capacities : createRoom(s, cap)
  \/ \E s \in Sockets : handleDisconnect(s)
  \/ \E s \in Sockets : enterLobby(s)
  \/ \E s \in Sockets : exitLobby(s)
  \/ \E s \in Sockets, r \in RoomIds : enterRoom(s, r)
  \/ \E s \in Sockets : exitRoom(s)
  \/ \E s \in Sockets, target \in Users : kick(s, target)

\* What clients and the runtime's timers do once rooms exist.
RoundNext ==
  \/ \E s \in Sockets : handleDisconnect(s)
  \/ \E s \in Sockets : enterLobby(s)
  \/ \E s \in Sockets : exitLobby(s)
  \/ \E s \in Sockets, r \in RoomIds : enterRoom(s, r)
  \/ \E s \in Sockets : exitRoom(s)
  \/ \E s \in Sockets, target \in Users : kick(s, target)
  \/ \E s \in Sockets : ready(s)
  \/ \E r \in RoomIds : start(r)
  \/ \E s \in Sockets : pass(s)
  \/ \E r \in RoomIds : countdownExpire(r)

SessionSpec == Init /\ [][SessionNext]_vars

\* The countdown is a timer of the runtime: once scheduled and not cancelled,
\* its callback runs.
TimerFairness == \A r \in RoomIds : WF_vars(countdownExpire(r))

\* The rounds of one room: A and B, both connected, have entered room 1, of
\* capacity 2, and no other room is created.
BothInRoom ==
  /\ sock = [s \in Sockets |->
               IF s = 1 THEN [NewSocket EXCEPT !.st = "open", !.user = "A", !.roomId = 1,
                                               !.joined = {1}]
               ELSE IF s = 2 THEN [NewSocket EXCEPT !.st = "open", !.user = "B", !.roomId = 1,
                                                    !.joined = {1}]
               ELSE NewSocket]
  /\ registry = [u \in Users |-> IF u = "A" THEN 1 ELSE 2]
  /\ rooms = [r \in RoomIds |->
                IF r = 1 THEN [FreshRoom(2) EXCEPT !.players = {"A", "B"}] ELSE FreeRoom]
  /\ lobby = {}
  /\ pendingStart = [r \in RoomIds |-> 0]
  /\ countdowns = [r \in RoomIds |-> 0]
  /\ intervals = [r \in RoomIds |-> 0]
  /\ out = {Bcast("user_enter_room", 1), BcastAbout("change_user_count", LOBBY_ID, 1)}
  /\ last = Step("enter_room", 2, 1, "ok")

RoundSpec == BothInRoom /\ [][RoundNext]_vars

\* The rounds of that room with the item-spawn ticks and the item actions;
\* members leave the room but nobody enters one.
ItemNext ==
  \/ \E s \in Sockets : handleDisconnect(s)
  \/ \E s \in Sockets : exitRoom(s)
  \/ \E s \in Sockets, target \in Users : kick(s, target)
  \/ \E s \in Sockets : ready(s)
  \/ \E r \in RoomIds : start(r)
  \/ \E s \in Sockets : pass(s)
  \/ \E r \in RoomIds : countdownExpire(r)
  \/ \E r \in RoomIds : createItem(r)
  \/ \E s \in Sockets, k \in ItemKinds : useItem(s, k)

ItemSpec == BothInRoom /\ [][ItemNext]_vars

FairSpec == RoundSpec /\ TimerFairness

\* The whole gateway.  Its reachable states at these bounds are too many to
\* enumerate; the properties are checked on its parts: SessionSpec (no round
\* is played), RoundSpec (two connected identities and the room they
\* entered) and ItemSpec (that room's rounds with items).  The session
\* handlers read none of what the round and item handlers write (readiness,
\* room state, timers, passed flags, inventories).
Next ==
  \/ SessionNext
  \/ \E s \in Sockets : ready(s)
  \/ \E r \in RoomIds : start(r)
  \/ \E s \in Sockets : pass(s)
  \/ \E r \in RoomIds : countdownExpire(r)
  \/ \E r \in RoomIds : createItem(r)
  \/ \E s \in Sockets, k \in ItemKinds : useItem(s, k)

Spec == Init /\ [][Next]_vars

\* ============================================================ properties
AllRooms == RoomIds \cup {LOBBY_ID}

\* The identities whose live connection has entered r last and is counted there.
Joined(r) == {u \in Users : /\ socketConnected(registry[u])
                            /\ sock[registry[u]].user = u
                            /\ sock[registry[u]].roomId = r}

\* C1: whatever enter_lobby, enter_room, exit_room, kick and disconnect steps
\* were taken, every member of a room (the lobby included) is an identity
\* whose live connection is joined to that room, the room's member count is
\* the number of such identities among its members, and no identity is a
\* member of two rooms at once.
C1_MembershipConsistent ==
  /\ \A r \in AllRooms : Members(World, r) \subseteq Joined(r)
  /\ \A r \in AllRooms : roomUserCount(World, r) = Cardinality(Members(World, r) \cap Joined(r))
  /\ \A u \in Users : Cardinality({r \in AllRooms : u \in Members(World, r)}) <= 1

\* Both identities have moved from room 1, now removed, into room 2.
C1_Witness ==
  /\ last.op = "enter_room" /\ last.res = "ok" /\ last.r = 2
  /\ rooms[1].status = "gone"
  /\ roomUserCount(World, 2) = 2

IsFull(w, r) == IsLive(w, r) /\ roomUserCount(w, r) >= w.rooms[r].capacity

\* C2: an enter_room on a room whose member count has reached its capacity
\* fails with RoomFull and changes nothing: no room's membership, no
\* connection's current room, and it emits no notification.
C2_EnterFullRoomFails ==
  [][(last'.op = "enter_room" /\ IsFull(World, last'.r))
       => /\ last'.res = "RoomFull"
          /\ rooms' = rooms /\ lobby' = lobby /\ sock' = sock
          /\ out' = {}]_vars

\* A member of room 2 was refused by the full room 1 and is still in room 2.
C2_Witness ==
  /\ last.op = "enter_room" /\ last.res = "RoomFull" /\ last.r = 1
  /\ IsFull(World, 1)
  /\ sock[last.s].roomId = 2
  /\ sock[last.s].user \in Members(World, 2)
  /\ sock[last.s].user \notin Members(World, 1)

\* C5: when the connection of the last member of a non-lobby room disconnects,
\* the room is removed from the directory, the lobby is sent delete_room for
\* it, and no user_exit_room is emitted.
C5_LastMemberDisconnect ==
  [][\A s \in Sockets :
       (/\ last'.op = "disconnect" /\ last'.s = s
        /\ sock[s].st = "open"
        /\ IsLive(World, sock[s].roomId)
        /\ rooms[sock[s].roomId].players = {sock[s].user})
       => /\ rooms'[sock[s].roomId].status = "gone"
          /\ BcastAbout("delete_room", LOBBY_ID, sock[s].roomId) \in out'
          /\ \A e \in out' : e.ev # "user_exit_room"]_vars

\* A disconnect has removed its room, and the lobby was told so, while the
\* other room lives on.
C5_Witness ==
  /\ last.op = "disconnect" /\ last.r \in RoomIds
  /\ rooms[last.r].status = "gone"
  /\ out = {BcastAbout("delete_room", LOBBY_ID, last.r)}
  /\ \E q \in RoomIds : q # last.r /\ IsLive(World, q)

\* C3: a room becomes playing only if what the last ready toggle found still
\* holds when it does: every member of the room is ready.  (A ready toggled
\* off, or a member entered, since the toggle that found all ready leaves a
\* member that is not ready.)
C3_PlayingOnlyIfAllReady ==
  [][\A r \in RoomIds :
       (rooms[r].state # "playing" /\ rooms'[r].state = "playing")
       => svcAllUserReady(World, r)]_vars

\* C4: a round ends once: game_over and room_game_over are emitted for a room
\* only by the step that takes it from playing to over, and a room that is
\* over has no countdown and no item-spawn interval left.
C4_RoundEndsOnce ==
  [][\A r \in RoomIds :
       /\ (Bcast("game_over", r) \in out' \/ BcastAbout("room_game_over", LOBBY_ID, r) \in out')
            => (rooms[r].state = "playing" /\ rooms'[r].state = "over")
       /\ (rooms'[r].status = "live" /\ rooms'[r].state = "over")
            => (countdowns'[r] = 0 /\ intervals'[r] = 0 /\ rooms'[r].timer # "live")]_vars

\* C6: a kick by a member of a room whose target is not a member of that room
\* is answered with NotAMember, changes no membership and emits nothing.
C6_KickNonMemberSilent ==
  [][\A s \in Sockets :
       (/\ last'.op = "kick" /\ last'.s = s
        /\ sock[s].user \in Members(World, sock[s].roomId)
        /\ last'.res # "success")
       => /\ last'.res = "NotAMember"
          /\ out' = {} /\ rooms' = rooms /\ lobby' = lobby]_vars

\* C7: a pass by a member of a playing room, after which every member of the
\* room has passed, ends the round in that step: no countdown is left, the
\* room is over and game_over is emitted.
C7_AllPassedEndsRound ==
  [][\A s \in Sockets :
       (/\ last'.op = "pass" /\ last'.s = s
        /\ IsLive(World, sock[s].roomId)
        /\ rooms[sock[s].roomId].state = "playing"
        /\ sock[s].user \in rooms[sock[s].roomId].players
        /\ svcAllUserPassed(World, sock[s].roomId, sock'))
       => /\ rooms'[sock[s].roomId].state = "over"
          /\ countdowns'[sock[s].roomId] = 0
          /\ Bcast("game_over", sock[s].roomId) \in out']_vars

\* C8: a playing room with a countdown scheduled comes to be over, unless its
\* members leave it and it is removed first; and the expiry of a playing
\* room's countdown takes the room to over whoever has passed.
C8_CountdownEndsRound ==
  /\ \A r \in RoomIds :
       (rooms[r].status = "live" /\ rooms[r].state = "playing" /\ countdowns[r] > 0)
         ~> (rooms[r].status # "live" \/ rooms[r].state = "over")
  /\ [][\A r \in RoomIds :
          (/\ last'.op = "countdown_expire" /\ last'.r = r
           /\ rooms[r].status = "live" /\ rooms[r].state = "playing")
          => rooms'[r].state = "over"]_vars

\* The countdown ended a round in which a member had not passed.
C8_Witness ==
  /\ last.op = "countdown_expire" /\ last.res = "ok"
  /\ rooms[last.r].status = "live" /\ rooms[last.r].state = "over"
  /\ rooms[last.r].timer = "none"
  /\ Bcast("game_over", last.r) \in out
  /\ \E u \in rooms[last.r].players : ~sock[registry[u]].passed

\* C10: no room ever has two countdowns scheduled or two item-spawn intervals
\* running.
C10_OneTimerOfEachKind ==
  \A r \in RoomIds : countdowns[r] <= 1 /\ intervals[r] <= 1

\* C11: whenever a step takes the last member out of a non-lobby room, by
\* whatever handler, the room is removed from the directory and the lobby is
\* sent delete_room for it.
C11_EmptiedRoomRemoved ==
  [][\A r \in RoomIds :
       (/\ IsLive(World, r) /\ rooms[r].players # {}
        /\ (rooms'[r].status # "live" \/ rooms'[r].players = {}))
       => /\ rooms'[r].status = "gone"
          /\ BcastAbout("delete_room", LOBBY_ID, r) \in out']_vars

\* C12: a room that is removed has no countdown and no item-spawn interval
\* left, and a countdown expiry or an item-spawn tick for a room that is not
\* there, or not playing, changes neither its state nor any inventory and
\* emits nothing.
C12_NoTimerOnStaleRoom ==
  [][\A r \in RoomIds :
       /\ (rooms[r].status = "live" /\ rooms'[r].status = "gone")
            => (countdowns'[r] = 0 /\ intervals'[r] = 0)
       /\ (/\ last'.op \in {"countdown_expire", "create_item"} /\ last'.r = r
           /\ ~(IsLive(World, r) /\ rooms[r].state = "playing"))
            => /\ rooms'[r].state = rooms[r].state
               /\ rooms'[r].inv = rooms[r].inv
               /\ out' = {}]_vars

\* C13: a room's state changes only from waiting to playing and from playing
\* to over; a pass in a room that is not playing does not change its state,
\* and neither does the expiry of a countdown that such a pass scheduled.
C13_OnlyLegalTransitions ==
  [][\A r \in RoomIds :
       /\ (rooms[r].status = "live" /\ rooms'[r].status = "live"
                                    /\ rooms'[r].state # rooms[r].state)
            => <<rooms[r].state, rooms'[r].state>>
                 \in {<<"waiting", "playing">>, <<"playing", "over">>}
       /\ (last'.op = "pass" /\ last'.r = r /\ rooms[r].state # "playing")
            => rooms'[r].state = rooms[r].state
       /\ (/\ last'.op = "countdown_expire" /\ last'.r = r
           /\ rooms[r].timer = "live" /\ countdowns[r] = 1
           /\ rooms[r].timerSetIn # "playing")
            => rooms'[r].state = rooms[r].state]_vars

\* C14: a successful kick of another member of a room takes the target out of
\* the room's members and leaves the target's connection with a current room
\* other than that room.
C14_KickDissociatesTarget ==
  [][\A r \in RoomIds, u \in Users :
       (/\ last'.op = "kick" /\ last'.res = "success" /\ last'.r = r
        /\ u \in Members(World, r)
        /\ registry[u] \in Sockets \ {last'.s}
        /\ (u \notin Members(World, r))')
       => sock'[registry[u]].roomId # r]_vars

\* C15: the disconnect of a member of a non-lobby room emits what exit_room by
\* that member would emit in the same state, and removes the identity from
\* the registry.
C15_DisconnectAsExitRoom ==
  [][\A s \in Sockets :
       (/\ last'.op = "disconnect" /\ last'.s = s
        /\ sock[s].st = "open"
        /\ sock[s].roomId \in RoomIds
        /\ sock[s].user \in Members(World, sock[s].roomId))
       => /\ out' = exitRoomEvents(svcExitRoomResult(World, sock[s].roomId, sock[s].user),
                                   sock[s].roomId)
          /\ registry'[sock[s].user] = NoSocket]_vars

\* C16: when a room becomes playing, no member of it carries a passed flag.
C16_RoundStartsUnpassed ==
  [][\A r \in RoomIds :
       (rooms[r].state # "playing" /\ rooms'[r].state = "playing")
       => \A u \in rooms'[r].players : ~sock'[registry'[u]].passed]_vars

\* C17: an item action by a member of a room, for a kind the member does not
\* hold, fails with ItemNotOwned and changes no inventory; for a kind it holds,
\* it takes exactly one item of that kind from that member and changes nothing
\* else.  No inventory count is ever negative.
C17_UseItemDecrementsOwned ==
  /\ [](\A r \in RoomIds, u \in Users, k \in ItemKinds : rooms[r].inv[u][k] >= 0)
  /\ [][\A s \in Sockets, k \in ItemKinds :
          (/\ last'.op = "item" /\ last'.s = s /\ last'.item = k
           /\ IsLive(World, sock[s].roomId)
           /\ sock[s].user \in rooms[sock[s].roomId].players)
          => IF rooms[sock[s].roomId].inv[sock[s].user][k] = 0
               THEN last'.res = "ItemNotOwned" /\ rooms' = rooms
               ELSE /\ last'.res = "success"
                    /\ rooms' = [rooms EXCEPT ![sock[s].roomId].inv[sock[s].user][k] = @ - 1]]_vars

\* A member has used its one item of a kind, and the other member still holds
\* its own item of that kind.
C17_Witness ==
  /\ last.op = "item" /\ last.res = "success"
  /\ IsLive(World, last.r)
  /\ sock[last.s].user \in rooms[last.r].players
  /\ rooms[last.r].inv[sock[last.s].user][last.item] = 0
  /\ \E v \in rooms[last.r].players \ {sock[last.s].user} : rooms[last.r].inv[v][last.item] = 1

\* C18: the disconnect of a connection that was rejected at connect time
\* changes nothing: the registry, the rooms, the lobby and every other
\* connection stay as they were, and nothing is emitted.
C18_RejectedDisconnectChangesNothing ==
  [][\A s \in Sockets :
       (last'.op = "disconnect" /\ last'.s = s /\ sock[s].st = "rejected")
       => /\ registry' = registry /\ rooms' = rooms /\ lobby' = lobby
          /\ out' = {}
          /\ \A t \in Sockets \ {s} : sock'[t] = sock[t]]_vars

\* A rejected connection has closed while the other connection, registered, is
\* a member of a room.
C18_Witness ==
  /\ last.op = "disconnect" /\ last.res = "ignored"
  /\ sock[last.s].st = "closed"
  /\ \E t \in Sockets \ {last.s} :
       /\ sock[t].st = "open" /\ registry[sock[t].user] = t
       /\ sock[t].roomId \in RoomIds
       /\ sock[t].user \in Members(World, sock[t].roomId)

\* C19: a connection's current room is a room its identity is a member of,
\* and delete_room is emitted for a room only by the step that removes it.
C19_PointerOnlyWhileMember ==
  [][/\ \A s \in Sockets :
          (sock'[s].st = "open" /\ sock'[s].roomId # NoRoom)
          => (sock[s].user \in Members(World, sock[s].roomId))'
     /\ \A r \in RoomIds :
          BcastAbout("delete_room", LOBBY_ID, r) \in out' => IsLive(World, r)]_vars

\* C20: the channels a connection is subscribed to are exactly the rooms (the
\* lobby included) its identity is a member of.
C20_ChannelsFollowMembership ==
  \A s \in Sockets :
    sock[s].st = "open"
    => sock[s].joined = {r \in AllRooms : sock[s].user \in Members(World, r)}

LiveSockets(u) == {s \in Sockets : sock[s].st = "open" /\ sock[s].user = u}

\* C9: an identity never has two live connections, its live connection is the
\* registered one, and a connection attempt that resumes from the user lookup
\* while the identity is registered is rejected and registers nothing.
C9_OneConnectionPerIdentity ==
  [][/\ \A u \in Users : /\ Cardinality(LiveSockets(u)') <= 1
                          /\ \A s \in LiveSockets(u)' : registry'[u] = s
     /\ \A s \in Sockets :
          (/\ last'.op = "connect" /\ last'.s = s
           /\ sock[s].st \in {"lookup", "lookupClosed"}
           /\ isConnectedUser(sock[s].user))
          => /\ last'.res = "rejected"
             /\ sock'[s].st \notin {"open", "lookup"}
             /\ registry' = registry]_vars

\* The second of two attempts for one identity was rejected while the first,
\* registered, is live.
C9_Witness ==
  /\ last.op = "connect" /\ last.res = "rejected"
  /\ sock[last.s].st = "rejected"
  /\ \E t \in Sockets : t # last.s /\ sock[t].st = "open" /\ registry[sock[t].user] = t
====
